---- MODULE Spec2Model ----
(***************************************************************************)
(* State-machine model of src/src/main.rs: the start-up sequence of main   *)
(* (graphics configuration pick, context creation with fallback, window    *)
(* surface, make-current, skia context, framebuffer info, initial skia     *)
(* surface, accessibility adapter, Env) followed by the winit event        *)
(* handler passed to el.run.                                               *)
(*                                                                         *)
(* Every `unwrap`/`expect` of the source is a fallible step: its failure   *)
(* is an input chosen with \E and leads to pc = "aborted".                 *)
(***************************************************************************)
EXTENDS Integers, Sequences, FiniteSets

VARIABLES
    pc,               \* position of main: an initialization step, "running", "exited", "aborted"
    abort_reason,     \* which unwrap/expect panicked ("" while alive)
    configs,          \* the candidate configurations the display enumerates (line 42)
    gl_config,        \* the configuration picked by the reduce closure (line 41)
    window_size,      \* the window's physical inner size as the windowing system has it
    ctx_attempts,     \* the create_context calls made, in order (lines 64-74)
    gl_context,       \* "none", or the API of the context in use: "default" | "Gles"
    gl_surface,       \* the glutin window surface size: <<>> or <<width, height>>
    current,          \* TRUE once make_current succeeded (line 89)
    gr_context,       \* TRUE once the skia DirectContext exists (line 108)
    fb_info,          \* <<>> or <<fboid>>: the FramebufferInfo snapshot (line 111)
    surface,          \* the skia Surface held in env.surface (id 0: none yet)
    surfaces_created, \* number of skia surfaces created so far
    adapter,          \* TRUE while the value of accesskit_winit::Adapter::new is alive (line 161)
    initial_redraw,   \* "none" | "pending" | "lost" | "delivered": the window's first redraw request
    env,              \* TRUE once the Env struct is built (line 163)
    init_log,         \* the initialization steps completed, in order
    control_flow,     \* the event loop's ControlFlow: "Poll" | "Wait" | "Exit"
    event,            \* the last event handed to the handler
    ops,              \* the GPU / surface operations of the last handler invocation, in order
    frame,            \* the last frame drawn: the sizes the draw saw
    handled,          \* number of handler invocations
    resizes,          \* number of Resized events handled
    redraws,          \* number of RedrawRequested events handled
    swaps,            \* number of swap_buffers calls made
    swap_result       \* "none" | "Ok" | "Err": what the last swap_buffers call returned

vars == <<pc, abort_reason, configs, gl_config, window_size, ctx_attempts, gl_context,
          gl_surface, current, gr_context, fb_info, surface, surfaces_created, adapter,
          initial_redraw, env, init_log, control_flow, event, ops, frame, handled,
          resizes, redraws, swaps, swap_result>>

-----------------------------------------------------------------------------
(* Bounds of the model *)

\* Longest candidate sequence explored for the configuration picker alone.
MaxConfigs == 4

\* Longest candidate sequence explored together with the event loop.
MaxLoopConfigs == 1

\* Number of events handed to the handler in one run.
MaxEvents == 3

-----------------------------------------------------------------------------
(* Program constants *)

\* NonZeroU32::new(600) / the width in create_surface's size (lines 78, 131).
SurfaceWidth == 600

\* NonZeroU32::new(300) / the height in create_surface's size (lines 79, 131).
SurfaceHeight == 300

-----------------------------------------------------------------------------
(* Input domains *)

\* GlConfig::supports_transparency() is an Option<bool>.
Transparency == {"Some_true", "Some_false", "None"}

SampleCounts == {0, 2, 4}

StencilSizes == {8}

Config == [transparency : Transparency, num_samples : SampleCounts,
           stencil_size : StencilSizes]

\* Physical widths and heights a Resized event may carry (u32 each).
Widths == {0, 1, 800}

Heights == {0, 1, 400}

\* Framebuffer bindings GetIntegerv may report.
FboIds == {0, 1}

RECURSIVE SeqsUpTo(_, _)
SeqsUpTo(S, n) ==
    IF n = 0 THEN {<<>>}
    ELSE LET shorter == SeqsUpTo(S, n - 1)
         IN  shorter \cup {Append(s, x) : s \in {t \in shorter : Len(t) = n - 1}, x \in S}

-----------------------------------------------------------------------------
(* Configuration picker: the closure given to DisplayBuilder::build *)

\* config.supports_transparency().unwrap_or(false)
SupportsTransparency(c) == c.transparency = "Some_true"

\* Lines 45-46: the candidate supports transparency and the accumulator does not.
TransparencyCheck(accum, config) ==
    SupportsTransparency(config) /\ ~SupportsTransparency(accum)

\* The closure without its sample comparison: the transparency check alone decides.
ReduceStepTransparencyOnly(accum, config) ==
    IF SupportsTransparency(config) /\ ~SupportsTransparency(accum)
    THEN config
    ELSE accum

\* The closure without its transparency check: fewer samples alone decide.
ReduceStepSamplesOnly(accum, config) ==
    IF config.num_samples < accum.num_samples THEN config ELSE accum

\* The closure with <= for <: among equal sample counts the later candidate wins.
ReduceStepLessOrEqual(accum, config) ==
    IF TransparencyCheck(accum, config) \/ config.num_samples <= accum.num_samples
    THEN config
    ELSE accum

\* Lines 44-53: the closure given to Iterator::reduce.
ReduceStep(accum, config) ==
    IF TransparencyCheck(accum, config) \/ config.num_samples < accum.num_samples
    THEN config
    ELSE accum

\* Iterator::reduce: a left fold seeded with the first element.
RECURSIVE Fold(_, _)
Fold(accum, rest) ==
    IF rest = <<>> THEN accum
    ELSE Fold(ReduceStep(accum, Head(rest)), Tail(rest))

\* A picker that folds from a default configuration instead of the first candidate.
PickConfigFromDefault(cs) ==
    Fold([transparency |-> "None", num_samples |-> 0, stencil_size |-> 0], cs)

\* Lines 43-54 on a non-empty candidate sequence (reduce(...).unwrap()).
PickConfig(cs) == Fold(Head(cs), Tail(cs))

-----------------------------------------------------------------------------
(* Values *)

NoConfig == [transparency |-> "None", num_samples |-> 0, stencil_size |-> 0]

NoSurface == [id |-> 0, width |-> 0, height |-> 0, num_samples |-> 0,
              stencil_size |-> 0, fboid |-> 0]

NoEvent == [kind |-> "None", width |-> 0, height |-> 0]

NoFrame == [drawn |-> FALSE, surface_id |-> 0, surface_size |-> <<>>,
            gl_surface_size |-> <<>>, resizes_before |-> 0]

\* window.raw_window_handle() (line 59): one window, one handle.
RawWindowHandle == "raw_window_handle"

\* create_surface sized from the window's inner size instead of the fixed pair.
CreateSurfaceSizeOfWindow == window_size

\* Lines 125-144: create_surface builds the backend render target from the
\* fixed size (600, 300), the sample count, the stencil size and fb_info.
CreateSurfaceSize == <<SurfaceWidth, SurfaceHeight>>

CreateSurface(fb, num_samples, stencil_size, id) ==
    [id |-> id, width |-> CreateSurfaceSize[1], height |-> CreateSurfaceSize[2],
     num_samples |-> num_samples, stencil_size |-> stencil_size, fboid |-> fb[1]]

\* The resize without the clamp: the event's dimension as it comes.
Max1Unclamped(d) == d

\* u32::max(1) of lines 188-189.
Max1(d) == IF d < 1 THEN 1 ELSE d

\* create_context that makes the Gles attempt whether or not the first succeeded.
ContextAttemptsBoth(cfg, handle, primary_ok, fallback_ok) ==
    <<[api |-> "default", config |-> cfg, handle |-> handle, ok |-> primary_ok],
      [api |-> "Gles", config |-> cfg, handle |-> handle, ok |-> fallback_ok]>>

\* Lines 64-74: create_context with the default attributes, and in
\* unwrap_or_else with the Gles attributes; both with gl_config and the
\* attributes built from raw_window_handle.
ContextAttempts(cfg, handle, primary_ok, fallback_ok) ==
    LET primary  == [api |-> "default", config |-> cfg, handle |-> handle,
                     ok |-> primary_ok]
        fallback == [api |-> "Gles", config |-> cfg, handle |-> handle,
                     ok |-> fallback_ok]
    IN  IF primary_ok THEN <<primary>> ELSE <<primary, fallback>>

\* The context create_context ends with: the first successful attempt.
ContextOf(attempts) ==
    IF attempts[Len(attempts)].ok THEN attempts[Len(attempts)].api ELSE "none"

-----------------------------------------------------------------------------
(* Initial states *)

InitRest ==
    /\ pc = "build_display"
    /\ abort_reason = ""
    /\ gl_config = NoConfig
    /\ window_size = <<>>
    /\ ctx_attempts = <<>>
    /\ gl_context = "none"
    /\ gl_surface = <<>>
    /\ current = FALSE
    /\ gr_context = FALSE
    /\ fb_info = <<>>
    /\ surface = NoSurface
    /\ surfaces_created = 0
    /\ adapter = FALSE
    /\ initial_redraw = "none"
    /\ env = FALSE
    /\ init_log = <<>>
    /\ control_flow = "Poll"
    /\ event = NoEvent
    /\ ops = <<>>
    /\ frame = NoFrame
    /\ handled = 0
    /\ resizes = 0
    /\ redraws = 0
    /\ swaps = 0
    /\ swap_result = "none"

Init == configs \in SeqsUpTo(Config, MaxLoopConfigs) /\ InitRest

PickInit == configs \in SeqsUpTo(Config, MaxConfigs) /\ InitRest

-----------------------------------------------------------------------------
(* Initialization: main, lines 33-169 *)

\* A panic: the unwrap/expect named by reason failed.
Abort(reason) ==
    /\ pc' = "aborted"
    /\ abort_reason' = reason

\* A step of main completed; main goes on with step next.
Done(step, next) ==
    /\ pc' = next
    /\ init_log' = Append(init_log, step)
    /\ abort_reason' = abort_reason

loop_vars == <<control_flow, event, ops, frame, handled, resizes, redraws, swaps,
               swap_result>>

\* Lines 33-58: DisplayBuilder::build creates the window and picks the
\* configuration. build(...).unwrap() panics when build returns Err, and
\* reduce(...).unwrap() inside the picker when there is no candidate;
\* window.expect(...) comes after build returned the picked configuration.
BuildDisplay ==
    /\ pc = "build_display"
    /\ \/ /\ Abort("display_build")
          /\ UNCHANGED <<gl_config, window_size, initial_redraw, init_log>>
       \/ /\ configs = <<>>
          /\ Abort("no_config")
          /\ UNCHANGED <<gl_config, window_size, initial_redraw, init_log>>
       \/ /\ configs # <<>>
          /\ gl_config' = PickConfig(configs)
          /\ \/ /\ Abort("no_window")
                /\ UNCHANGED <<window_size, initial_redraw, init_log>>
             \/ /\ \E w \in Widths, h \in Heights : window_size' = <<w, h>>
                /\ initial_redraw' = "pending"
                /\ Done("select_config", "create_context")
    /\ UNCHANGED <<configs, ctx_attempts, gl_context, gl_surface, current, gr_context,
                   fb_info, surface, surfaces_created, adapter, env>>
    /\ UNCHANGED loop_vars

\* Lines 59-74: the primary attempt, then the fallback attempt only in
\* unwrap_or_else; expect("failed to create context") when both fail.
CreateContext ==
    /\ pc = "create_context"
    /\ \E primary_ok \in BOOLEAN, fallback_ok \in BOOLEAN :
          LET attempts == ContextAttempts(gl_config, RawWindowHandle, primary_ok, fallback_ok)
          IN  /\ ctx_attempts' = attempts
              /\ gl_context' = ContextOf(attempts)
              /\ IF ContextOf(attempts) = "none"
                 THEN Abort("create_context") /\ UNCHANGED init_log
                 ELSE Done("create_context", "create_window_surface")
    /\ UNCHANGED <<configs, gl_config, window_size, gl_surface, current, gr_context,
                   fb_info, surface, surfaces_created, adapter, initial_redraw, env>>
    /\ UNCHANGED loop_vars

\* Lines 76-87: the window surface is created 600 x 300.
CreateWindowSurface ==
    /\ pc = "create_window_surface"
    /\ \/ /\ Abort("create_window_surface")
          /\ UNCHANGED <<gl_surface, init_log>>
       \/ /\ gl_surface' = <<SurfaceWidth, SurfaceHeight>>
          /\ Done("create_window_surface", "make_current")
    /\ UNCHANGED <<configs, gl_config, window_size, ctx_attempts, gl_context, current,
                   gr_context, fb_info, surface, surfaces_created, adapter,
                   initial_redraw, env>>
    /\ UNCHANGED loop_vars

\* make_current whose failure is not checked: main goes on without a current context.
MakeCurrentUnchecked ==
    /\ pc = "make_current"
    /\ \E ok \in BOOLEAN : current' = ok
    /\ Done("make_current", "gr_context")
    /\ UNCHANGED <<configs, gl_config, window_size, ctx_attempts, gl_context, gl_surface,
                   gr_context, fb_info, surface, surfaces_created, adapter,
                   initial_redraw, env>>
    /\ UNCHANGED loop_vars

\* Lines 89-91: not_current_gl_context.make_current(&gl_surface).expect(...).
MakeCurrent ==
    /\ pc = "make_current"
    /\ \/ /\ Abort("make_current")
          /\ UNCHANGED <<current, init_log>>
       \/ /\ current' = TRUE
          /\ Done("make_current", "gr_context")
    /\ UNCHANGED <<configs, gl_config, window_size, ctx_attempts, gl_context, gl_surface,
                   gr_context, fb_info, surface, surfaces_created, adapter,
                   initial_redraw, env>>
    /\ UNCHANGED loop_vars

\* Lines 93-109: gl::load_with, the skia Interface and the DirectContext.
CreateGrContext ==
    /\ pc = "gr_context"
    /\ \/ /\ \E reason \in {"interface", "direct_context"} : Abort(reason)
          /\ UNCHANGED <<gr_context, init_log>>
       \/ /\ gr_context' = TRUE
          /\ Done("gr_context", "fb_info")
    /\ UNCHANGED <<configs, gl_config, window_size, ctx_attempts, gl_context, gl_surface,
                   current, fb_info, surface, surfaces_created, adapter,
                   initial_redraw, env>>
    /\ UNCHANGED loop_vars

\* Lines 111-119: the framebuffer binding is read once; fboid.try_into().unwrap().
ReadFbInfo ==
    /\ pc = "fb_info"
    /\ \/ /\ Abort("fboid")
          /\ UNCHANGED <<fb_info, init_log>>
       \/ /\ \E id \in FboIds : fb_info' = <<id>>
          /\ Done("fb_info", "create_surface")
    /\ UNCHANGED <<configs, gl_config, window_size, ctx_attempts, gl_context, gl_surface,
                   current, gr_context, surface, surfaces_created, adapter,
                   initial_redraw, env>>
    /\ UNCHANGED loop_vars

\* Lines 121-148: window.set_inner_size(600 x 300), then the initial
\* create_surface(fb_info, gr_context, num_samples, stencil_size).
CreateInitialSurface ==
    /\ pc = "create_surface"
    /\ window_size' = <<SurfaceWidth, SurfaceHeight>>
    /\ \/ /\ Abort("create_surface")
          /\ UNCHANGED <<surface, surfaces_created, init_log>>
       \/ /\ surface' = CreateSurface(fb_info, gl_config.num_samples,
                                      gl_config.stencil_size, surfaces_created + 1)
          /\ surfaces_created' = surfaces_created + 1
          /\ Done("create_surface", "adapter")
    /\ UNCHANGED <<configs, gl_config, ctx_attempts, gl_context, gl_surface, current,
                   gr_context, fb_info, adapter, initial_redraw, env>>
    /\ UNCHANGED loop_vars

\* An adapter that leaves the window's initial redraw request alone.
AdapterKeepsRequest(request) == request

\* Lines 159-161: Adapter::new(&window, ...). The comment on the call records
\* its effect: with the adapter created, the event loop never gets the
\* window's initial redraw request.
AdapterEffect(request) == IF request = "pending" THEN "lost" ELSE request

\* The adapter bound to `_` instead of `_adapter`: constructed and dropped at once.
CreateAdapterDropped ==
    /\ pc = "adapter"
    /\ adapter' = FALSE
    /\ initial_redraw' = AdapterEffect(initial_redraw)
    /\ Done("adapter", "env")
    /\ UNCHANGED <<configs, gl_config, window_size, ctx_attempts, gl_context, gl_surface,
                   current, gr_context, fb_info, surface, surfaces_created, env>>
    /\ UNCHANGED loop_vars

\* `_adapter` is a local of main that the handler closure does not capture;
\* el.run never returns, so it is not dropped while the loop runs.
CreateAdapter ==
    /\ pc = "adapter"
    /\ adapter' = TRUE
    /\ initial_redraw' = AdapterEffect(initial_redraw)
    /\ Done("adapter", "env")
    /\ UNCHANGED <<configs, gl_config, window_size, ctx_attempts, gl_context, gl_surface,
                   current, gr_context, fb_info, surface, surfaces_created, env>>
    /\ UNCHANGED loop_vars

\* Lines 163-171: Env is built from the values created above and el.run starts.
BuildEnv ==
    /\ pc = "env"
    /\ env' = TRUE
    /\ Done("env", "running")
    /\ UNCHANGED <<configs, gl_config, window_size, ctx_attempts, gl_context, gl_surface,
                   current, gr_context, fb_info, surface, surfaces_created, adapter,
                   initial_redraw>>
    /\ UNCHANGED loop_vars

InitStep ==
    \/ BuildDisplay
    \/ CreateContext
    \/ CreateWindowSurface
    \/ MakeCurrent
    \/ CreateGrContext
    \/ ReadFbInfo
    \/ CreateInitialSurface
    \/ CreateAdapter
    \/ BuildEnv

-----------------------------------------------------------------------------
(* The event handler: the closure given to el.run, lines 171-216 *)

init_vars == <<configs, gl_config, ctx_attempts, gl_context, current, gr_context,
               fb_info, adapter, env, init_log>>

\* The loop runs and may hand one more event to the handler.
Delivering ==
    /\ pc = "running"
    /\ handled < MaxEvents

\* The ControlFlow the loop holds after a handler invocation that wrote
\* `written` last. Line 172 writes Wait on every invocation and line 178 writes
\* Exit; the loop keeps Exit once it was set, whatever is written later.
ControlFlowAfter(held, written) == IF held = "Exit" THEN "Exit" ELSE written

\* The redraw requests that can reach the handler now: one the windowing
\* system makes at any time (an event counted against MaxEvents), and the
\* window's initial one while it is pending.
RedrawSources ==
    (IF handled < MaxEvents THEN {"system"} ELSE {})
        \cup (IF initial_redraw = "pending" THEN {"initial"} ELSE {})

\* What the draw of a frame sees (lines 196-210 draw on env.surface).
FrameOf(s, gl_size, n) ==
    [drawn |-> TRUE, surface_id |-> s.id, surface_size |-> <<s.width, s.height>>,
     gl_surface_size |-> gl_size, resizes_before |-> n]

\* A redraw that presents before it flushes.
RedrawOpsSwapBeforeFlush(font_found) ==
    IF font_found
    THEN <<"clear", "draw_str", "swap_buffers", "flush_and_submit">>
    ELSE <<"clear">>

\* A redraw that presents twice.
RedrawOpsSwapTwice(font_found) ==
    IF font_found
    THEN <<"clear", "draw_str", "flush_and_submit", "swap_buffers", "swap_buffers">>
    ELSE <<"clear">>

\* The operations of one RedrawRequested invocation up to the point it ends:
\* find_typefaces(...).first().unwrap() panics before draw_str when no
\* typeface is found; swap_buffers(...).unwrap() is the last call.
RedrawOps(font_found) ==
    IF font_found
    THEN <<"clear", "draw_str", "flush_and_submit", "swap_buffers">>
    ELSE <<"clear">>

\* A swap whose result is dropped instead of unwrapped.
SwapResultIgnored(swap_ok) == UNCHANGED <<pc, abort_reason>>

\* Line 212: swap_buffers(&env.gl_context).unwrap() panics on Err.
SwapUnwrap(swap_ok) ==
    IF swap_ok THEN UNCHANGED <<pc, abort_reason>> ELSE Abort("swap_buffers")

\* Number of swap_buffers calls in a sequence of operations.
SwapsIn(os) == Cardinality({i \in DOMAIN os : os[i] = "swap_buffers"})

\* Lines 177-179: WindowEvent::CloseRequested.
CloseRequested ==
    /\ Delivering
    /\ event' = [kind |-> "CloseRequested", width |-> 0, height |-> 0]
    /\ control_flow' = ControlFlowAfter(control_flow, "Exit")
    /\ ops' = <<>>
    /\ handled' = handled + 1
    /\ UNCHANGED <<pc, abort_reason, window_size, gl_surface, surface, surfaces_created,
                   initial_redraw, frame, resizes, redraws, swaps, swap_result>>
    /\ UNCHANGED init_vars

\* A Resized handler that resizes the window surface first and recreates the
\* skia surface second: a create_surface panic then leaves the resize done.
ResizedResizeFirst ==
    /\ Delivering
    /\ \E w \in Widths, h \in Heights :
          /\ event' = [kind |-> "Resized", width |-> w, height |-> h]
          /\ window_size' = <<w, h>>
          /\ gl_surface' = <<Max1(w), Max1(h)>>
          /\ ops' = <<"resize", "create_surface">>
          /\ control_flow' = ControlFlowAfter(control_flow, "Wait")
          /\ \/ /\ Abort("create_surface")
                /\ UNCHANGED <<surface, surfaces_created>>
             \/ /\ surface' = CreateSurface(fb_info, gl_config.num_samples,
                                            gl_config.stencil_size, surfaces_created + 1)
                /\ surfaces_created' = surfaces_created + 1
                /\ UNCHANGED <<pc, abort_reason>>
    /\ handled' = handled + 1
    /\ resizes' = resizes + 1
    /\ UNCHANGED <<initial_redraw, frame, redraws, swaps, swap_result>>
    /\ UNCHANGED init_vars

\* A Resized handler that keeps the skia surface it has and only resizes
\* the window surface.
ResizedKeepsSurface ==
    /\ Delivering
    /\ \E w \in Widths, h \in Heights :
          /\ event' = [kind |-> "Resized", width |-> w, height |-> h]
          /\ window_size' = <<w, h>>
          /\ gl_surface' = <<Max1(w), Max1(h)>>
    /\ ops' = <<"resize">>
    /\ control_flow' = ControlFlowAfter(control_flow, "Wait")
    /\ handled' = handled + 1
    /\ resizes' = resizes + 1
    /\ UNCHANGED <<pc, abort_reason, surface, surfaces_created>>
    /\ UNCHANGED <<initial_redraw, frame, redraws, swaps, swap_result>>
    /\ UNCHANGED init_vars

\* Lines 180-191: WindowEvent::Resized(physical_size). create_surface runs
\* first (its expect may panic), then gl_surface.resize with each dimension
\* raised to at least 1.
Resized ==
    /\ Delivering
    /\ \E w \in Widths, h \in Heights :
          /\ event' = [kind |-> "Resized", width |-> w, height |-> h]
          /\ window_size' = <<w, h>>
          /\ \/ /\ Abort("create_surface")
                /\ ops' = <<"create_surface">>
                /\ control_flow' = ControlFlowAfter(control_flow, "Wait")
                /\ UNCHANGED <<surface, surfaces_created, gl_surface>>
             \/ /\ surface' = CreateSurface(fb_info, gl_config.num_samples,
                                            gl_config.stencil_size, surfaces_created + 1)
                /\ surfaces_created' = surfaces_created + 1
                /\ gl_surface' = <<Max1(w), Max1(h)>>
                /\ ops' = <<"create_surface", "resize">>
                /\ control_flow' = ControlFlowAfter(control_flow, "Wait")
                /\ UNCHANGED <<pc, abort_reason>>
    /\ handled' = handled + 1
    /\ resizes' = resizes + 1
    /\ UNCHANGED <<initial_redraw, frame, redraws, swaps, swap_result>>
    /\ UNCHANGED init_vars

\* Lines 194-213: Event::RedrawRequested. The frame is drawn on env.surface,
\* flushed, and presented with one swap_buffers call whose unwrap may panic.
RedrawRequested ==
    /\ pc = "running"
    /\ \E source \in RedrawSources, font_found \in BOOLEAN, swap_ok \in BOOLEAN :
          /\ initial_redraw' = IF source = "initial" THEN "delivered" ELSE initial_redraw
          /\ ops' = RedrawOps(font_found)
          /\ swaps' = swaps + SwapsIn(RedrawOps(font_found))
          /\ swap_result' = IF ~font_found THEN swap_result
                             ELSE IF swap_ok THEN "Ok" ELSE "Err"
          /\ IF ~font_found THEN Abort("font") ELSE SwapUnwrap(swap_ok)
    /\ event' = [kind |-> "RedrawRequested", width |-> 0, height |-> 0]
    /\ frame' = FrameOf(surface, gl_surface, resizes)
    /\ control_flow' = ControlFlowAfter(control_flow, "Wait")
    /\ handled' = handled + 1
    /\ redraws' = redraws + 1
    /\ UNCHANGED <<window_size, gl_surface, surface, surfaces_created, resizes>>
    /\ UNCHANGED init_vars

\* Lines 192 and 214: every other window event, user event or loop event.
OtherEvent ==
    /\ Delivering
    /\ event' = [kind |-> "Other", width |-> 0, height |-> 0]
    /\ control_flow' = ControlFlowAfter(control_flow, "Wait")
    /\ ops' = <<>>
    /\ handled' = handled + 1
    /\ UNCHANGED <<pc, abort_reason, window_size, gl_surface, surface, surfaces_created,
                   initial_redraw, frame, resizes, redraws, swaps, swap_result>>
    /\ UNCHANGED init_vars

\* Line 175: Event::LoopDestroyed, the last event of a loop whose control
\* flow is Exit; el.run then ends the process.
LoopDestroyed ==
    /\ pc = "running"
    /\ control_flow = "Exit"
    /\ pc' = "exited"
    /\ event' = [kind |-> "LoopDestroyed", width |-> 0, height |-> 0]
    /\ ops' = <<>>
    /\ handled' = handled + 1
    /\ UNCHANGED <<abort_reason, window_size, gl_surface, surface, surfaces_created,
                   initial_redraw, control_flow, frame, resizes, redraws, swaps,
                   swap_result>>
    /\ UNCHANGED init_vars

Handler ==
    \/ CloseRequested
    \/ Resized
    \/ RedrawRequested
    \/ OtherEvent
    \/ LoopDestroyed

-----------------------------------------------------------------------------
(* Specifications *)

Next == InitStep \/ Handler

Spec == Init /\ [][Next]_vars

\* The delivery of the window's initial redraw request to the handler.
InitialRedrawDelivery ==
    /\ initial_redraw = "pending"
    /\ RedrawRequested
    /\ initial_redraw' = "delivered"

\* main runs its initialization to the end (or to a panic), and the loop
\* hands a pending initial redraw request to the handler; nothing obliges
\* the windowing system to send any other event while the loop waits.
FairSpec == Spec /\ WF_vars(InitStep) /\ WF_vars(InitialRedrawDelivery)

\* The configuration picker alone, over longer candidate sequences.
PickSpec == PickInit /\ [][BuildDisplay]_vars

-----------------------------------------------------------------------------
(* Claims *)

\* The handler of the last event ran to its end.
HandlerCompleted == pc = "running" \/ pc = "exited"

\* The larger of d and 1.
AtLeastOne(d) == IF d > 1 THEN d ELSE 1

SurfaceSize == <<surface.width, surface.height>>

\* C1: in every state reached after the handler has fully processed a
\* Resized(w, h) event, the skia surface's pixel dimensions equal the window
\* surface's current pixel dimensions.
C1_SurfaceSizeInvariant ==
    (event.kind = "Resized" /\ HandlerCompleted) => SurfaceSize = gl_surface

\* C2: the window surface has each dimension >= 1 in every reachable state,
\* and a Resized(width, height) event whose handler reaches the resize call
\* leaves it at (max(width, 1), max(height, 1)).
C2_ResizeClamp ==
    /\ gl_surface # <<>> => (gl_surface[1] >= 1 /\ gl_surface[2] >= 1)
    /\ (event.kind = "Resized" /\ HandlerCompleted) =>
          gl_surface = <<AtLeastOne(event.width), AtLeastOne(event.height)>>

\* C2 witness: a Resized event with exactly one zero dimension was handled.
C2_Witness ==
    /\ event.kind = "Resized" /\ HandlerCompleted
    /\ event.width = 0 /\ event.height = 400
    /\ gl_surface = <<1, 400>>

\* A configuration has been picked from a non-empty candidate sequence.
Picked == pc = "create_context"

TransparentIndices == {i \in DOMAIN configs : SupportsTransparency(configs[i])}

LastTransparent == CHOOSE i \in TransparentIndices : \A j \in TransparentIndices : j <= i

\* C3 as stated: if some candidate supports transparency, the picked
\* configuration supports transparency.
C3_TransparencyDominates ==
    (Picked /\ TransparentIndices # {}) => SupportsTransparency(gl_config)

\* C3 amended: if some candidate supports transparency, the picked
\* configuration either supports transparency, or is a candidate enumerated
\* after every transparency-supporting one that has strictly fewer samples
\* than the last transparency-supporting candidate.
C3_TransparencyUnlessFewerSamplesLater ==
    (Picked /\ TransparentIndices # {}) =>
        \/ SupportsTransparency(gl_config)
        \/ \E j \in DOMAIN configs :
              /\ j > LastTransparent
              /\ configs[j] = gl_config
              /\ gl_config.num_samples < configs[LastTransparent].num_samples

\* C3 witness: a transparency-supporting candidate was offered and a
\* non-transparent one with fewer samples was picked.
C3_Witness ==
    /\ Picked /\ TransparentIndices # {}
    /\ ~SupportsTransparency(gl_config)

\* C4: a frame drawn after a Resized event is drawn on the surface that
\* resize created, and its size is the window surface's size after the resize.
C4_RedrawSeesPostResizeSize ==
    (frame.drawn /\ frame.resizes_before > 0) =>
        /\ frame.surface_id = frame.resizes_before + 1
        /\ frame.surface_size = frame.gl_surface_size

OkAttempts == {i \in DOMAIN ctx_attempts : ctx_attempts[i].ok}

\* C5: the Gles attempt is made exactly when the default attempt failed, with
\* the same configuration and window handle; at most one context is created;
\* start-up goes on with the context of the attempt that succeeded and aborts
\* when both failed.
C5_ContextFallback ==
    ctx_attempts # <<>> =>
        /\ Len(ctx_attempts) \in {1, 2}
        /\ ctx_attempts[1].api = "default"
        /\ ctx_attempts[1].config = gl_config
        /\ ctx_attempts[1].handle = RawWindowHandle
        /\ (Len(ctx_attempts) = 2) <=> ~ctx_attempts[1].ok
        /\ Len(ctx_attempts) = 2 =>
              /\ ctx_attempts[2].api = "Gles"
              /\ ctx_attempts[2].config = ctx_attempts[1].config
              /\ ctx_attempts[2].handle = ctx_attempts[1].handle
        /\ Cardinality(OkAttempts) <= 1
        /\ OkAttempts = {} =>
              /\ pc = "aborted" /\ abort_reason = "create_context"
              /\ gl_context = "none" /\ ~env
        /\ \A i \in OkAttempts :
              /\ gl_context = ctx_attempts[i].api
              /\ abort_reason # "create_context"

\* C5 witness: the default attempt failed, the Gles one succeeded and the
\* loop runs with the Gles context.
C5_Witness ==
    /\ Len(ctx_attempts) = 2 /\ ctx_attempts[2].ok
    /\ gl_context = "Gles" /\ pc = "running"


C7_CloseIsTerminal ==
    [][control_flow = "Exit" =>
          /\ control_flow' = "Exit"
          /\ resizes' = resizes /\ redraws' = redraws
          /\ surface' = surface /\ gl_surface' = gl_surface
          /\ frame' = frame /\ swaps' = swaps]_vars

DrawOps == {"clear", "draw_str", "flush_and_submit", "swap_buffers"}

\* The trace [Resized(1,1), Resized(0,0), RedrawRequested] has been handled.
ScenarioHandled ==
    /\ handled = 3 /\ resizes = 2 /\ redraws = 1
    /\ event.kind = "RedrawRequested"
    /\ window_size = <<0, 0>> /\ gl_surface = <<1, 1>>

InitOrder ==
    <<"select_config", "create_context", "create_window_surface", "make_current",
      "gr_context", "fb_info", "create_surface", "adapter", "env">>

InitAborts ==
    {"display_build", "no_window", "no_config", "create_context",
     "create_window_surface", "make_current", "interface", "direct_context",
     "fboid", "create_surface"}

\* C9: the initialization steps complete in the source's order, each at most
\* once; the loop runs, Env exists or an event is handled only after all of
\* them succeeded; a panic during initialization leaves no Env and no event
\* handled.
C9_NoHalfInitializedRunning ==
    /\ Len(init_log) <= Len(InitOrder)
    /\ init_log = SubSeq(InitOrder, 1, Len(init_log))
    /\ (pc \in {"running", "exited"} \/ env \/ handled > 0) =>
          /\ init_log = InitOrder
          /\ \E i \in DOMAIN configs : configs[i] = gl_config
          /\ gl_context # "none"
          /\ gl_surface # <<>>
          /\ current /\ gr_context
          /\ fb_info # <<>>
          /\ surface.id >= 1
          /\ env
    /\ (pc = "aborted" /\ ~env) =>
          /\ abort_reason \in InitAborts
          /\ handled = 0 /\ event = NoEvent
          /\ surfaces_created <= 1
    /\ Len(ctx_attempts) <= 2

\* C9 witness: all initialization steps succeeded and the loop handled an event.
C9_Witness == pc = "running" /\ env /\ handled > 0 /\ init_log = InitOrder

\* C10: a swap_buffers that returned Err panics the RedrawRequested handler
\* then and there: one swap call in that invocation, and the redraw stays the
\* last event handled.
C10_PresentFailureIsFatal ==
    swap_result = "Err" =>
        /\ pc = "aborted" /\ abort_reason = "swap_buffers"
        /\ event.kind = "RedrawRequested"
        /\ SwapsIn(ops) = 1 /\ ops[Len(ops)] = "swap_buffers"
        /\ swaps = redraws

\* C10 witness: the swap failed while the loop could still take events.
C10_Witness ==
    /\ swap_result = "Err" /\ pc = "aborted"
    /\ handled < MaxEvents


\* The picker closure was called: build did not fail before it.
PickerRan == pc # "build_display" /\ abort_reason # "display_build"

\* C11: once the picker ran, it panicked exactly when the candidate sequence
\* was empty, and otherwise the configuration it returned is one of the
\* candidates.
C11_PickIsMemberOrFatal ==
    PickerRan =>
        /\ (abort_reason = "no_config") <=> (configs = <<>>)
        /\ configs # <<>> => \E i \in DOMAIN configs : configs[i] = gl_config

\* C11 witness: several candidates were offered and one that is not the
\* first was returned.
C11_Witness ==
    /\ Picked /\ Len(configs) >= 3
    /\ gl_config # configs[1]
    /\ \E i \in DOMAIN configs : configs[i] = gl_config


AdapterConstructions == Cardinality({i \in DOMAIN init_log : init_log[i] = "adapter"})

\* C12: the adapter is constructed at most once and before any event is
\* handled; while the loop runs (and after it exited) it has been constructed
\* exactly once and is alive.
C12_AdapterBeforeLoopAndKept ==
    /\ AdapterConstructions <= 1
    /\ AdapterConstructions = 0 => (handled = 0 /\ pc \notin {"running", "exited"})
    /\ (pc \in {"running", "exited"} \/ handled > 0) =>
          (AdapterConstructions = 1 /\ adapter)

\* C12 witness: the loop handled several events with the adapter alive.
C12_Witness ==
    /\ pc = "running" /\ handled > 1
    /\ adapter /\ AdapterConstructions = 1

\* C13: whenever create_surface has just returned (the initial call, or the
\* call of a Resized handler), the surface it returned has the window's
\* current pixel size.
C13_SurfaceSizedFromWindow ==
    (pc = "adapter" \/ (event.kind = "Resized" /\ HandlerCompleted)) =>
        SurfaceSize = window_size

\* C14: for every pair (accumulated, candidate) the step returns the
\* candidate if it supports transparency (Some(true)) and the accumulated one
\* does not, otherwise the candidate if its sample count is strictly lower,
\* otherwise the accumulated one.
C14_PairwiseTieBreak ==
    (Picked /\ Len(configs) = 2) =>
        LET accumulated == configs[1]
            candidate   == configs[2]
        IN  gl_config =
              IF candidate.transparency = "Some_true"
                   /\ accumulated.transparency # "Some_true"
              THEN candidate
              ELSE IF candidate.num_samples < accumulated.num_samples
                   THEN candidate
                   ELSE accumulated

\* C14 witness: a candidate with more samples replaced an accumulated
\* configuration whose transparency support is unknown.
C14_Witness ==
    /\ Picked /\ Len(configs) = 2
    /\ configs[1].transparency = "None" /\ configs[2].transparency = "Some_true"
    /\ configs[2].num_samples > configs[1].num_samples
    /\ gl_config = configs[2]


\* The step is the handling of a Resized event.
ResizedStep == event'.kind = "Resized" /\ handled' = handled + 1

BuiltFromSnapshot(s) ==
    /\ s.num_samples = gl_config.num_samples
    /\ s.stencil_size = gl_config.stencil_size
    /\ s.fboid = fb_info[1]

WindowSurfaceCreations ==
    Cardinality({i \in DOMAIN init_log : init_log[i] = "create_window_surface"})

\* C16: while the loop runs no event changes fb_info, the picked
\* configuration (sample count, stencil size), the context or the set of
\* window surfaces created (one); a Resized event handled to its end puts a
\* newly created skia surface in place, built from those same values, and
\* every other event leaves the skia surface and the window surface alone.
C16_ResizeReplacesSurface ==
    [][pc = "running" =>
          /\ fb_info' = fb_info /\ gl_config' = gl_config
          /\ gl_context' = gl_context /\ current' = current
          /\ WindowSurfaceCreations = 1 /\ init_log' = init_log
          /\ BuiltFromSnapshot(surface) /\ BuiltFromSnapshot(surface')
          /\ IF event'.kind = "Resized"
             THEN pc' = "running" =>
                    /\ surface'.id = surfaces_created + 1
                    /\ surface'.id # surface.id
                    /\ surfaces_created' = surface'.id
             ELSE surface' = surface /\ gl_surface' = gl_surface]_vars

\* C16 witness: two Resized events were handled and the third skia surface
\* is in place, built with a non-zero sample count.
C16_Witness ==
    /\ pc = "running" /\ resizes = 2
    /\ surface.id = 3 /\ surfaces_created = 3
    /\ surface.num_samples = 4 /\ gl_config.num_samples = 4


\* Some GPU operation has been made: the skia context or fb_info exists, a
\* skia surface was created, or a handler drew, flushed or swapped.
GpuUsed ==
    \/ gr_context
    \/ fb_info # <<>>
    \/ surfaces_created > 0
    \/ ops # <<>>
    \/ frame.drawn
    \/ swaps > 0

\* C17: every GPU operation comes after a successful make_current of the
\* context on the window surface.
C17_CurrentBeforeGpu ==
    GpuUsed =>
        /\ current
        /\ gl_context # "none" /\ gl_surface # <<>>
        /\ Len(init_log) >= 4 /\ init_log[4] = "make_current"

\* C17 witness: surfaces were created and a frame was swapped, all with the
\* context current.
C17_Witness ==
    /\ current /\ surfaces_created = 2
    /\ swaps = 1 /\ frame.drawn
    /\ pc = "running"

\* Position of an operation in the order clear, text, flush, swap.
DrawRank(op) ==
    CASE op = "clear" -> 1
      [] op = "draw_str" -> 2
      [] op = "flush_and_submit" -> 3
      [] op = "swap_buffers" -> 4
      [] OTHER -> 0

\* C18: the operations of a RedrawRequested invocation are clear, the text,
\* the flush and the swap, each at most once and in that order with none
\* skipped; all four unless the font lookup panicked after the clear.
C18_DrawFlushSwapOrder ==
    event.kind = "RedrawRequested" =>
        /\ \A i \in DOMAIN ops : DrawRank(ops[i]) = i
        /\ Len(ops) = (IF abort_reason = "font" THEN 1 ELSE 4)

\* C18 witness: a redraw ran to its end with all four operations.
C18_Witness ==
    /\ event.kind = "RedrawRequested" /\ pc = "running"
    /\ Len(ops) = 4 /\ ops[3] = "flush_and_submit" /\ ops[4] = "swap_buffers"

\* C19: a skia surface that exists is 600 x 300, whatever the sizes of the
\* Resized events handled and whatever the window's size.
C19_SurfaceAlways600x300 ==
    surface.id > 0 => (surface.width = 600 /\ surface.height = 300)

\* C19 witness: a Resized(800, 400) was handled, the window and the window
\* surface are 800 x 400 and the skia surface created by it is 600 x 300.
C19_Witness ==
    /\ event = [kind |-> "Resized", width |-> 800, height |-> 400]
    /\ HandlerCompleted
    /\ window_size = <<800, 400>> /\ gl_surface = <<800, 400>>
    /\ surface.id = 2 /\ SurfaceSize = <<600, 300>>

\* The least sample count among the candidates.
MinSamples ==
    CHOOSE m \in {configs[i].num_samples : i \in DOMAIN configs} :
        \A i \in DOMAIN configs : m <= configs[i].num_samples

\* The first candidate, in enumeration order, with the least sample count.
FirstMinIndex ==
    CHOOSE k \in DOMAIN configs :
        /\ configs[k].num_samples = MinSamples
        /\ \A i \in DOMAIN configs : configs[i].num_samples = MinSamples => k <= i

\* C20: when no candidate supports transparency, or all do, the picked
\* configuration is the first candidate with the least sample count.
C20_FirstMinimumSamples ==
    (Picked /\ (TransparentIndices = {} \/ TransparentIndices = DOMAIN configs)) =>
        gl_config = configs[FirstMinIndex]

\* C20 witness: no candidate supports transparency, two distinct candidates
\* share the least sample count, and the earlier of them, which is not the
\* first candidate, was picked.
C20_Witness ==
    /\ Picked /\ TransparentIndices = {} /\ Len(configs) = 3
    /\ configs[2].num_samples = configs[3].num_samples
    /\ configs[2].num_samples < configs[1].num_samples
    /\ configs[2] # configs[3]
    /\ gl_config = configs[2]

====
